---- MODULE Spec2Model ----
(***************************************************************************)
(* S3DatabaseWriter (internal/geoipupdate/database/s3_file_writer.go):     *)
(* the write-validate-publish protocol for one edition, and the remote     *)
(* hash query.  Strings are sequences of one-character strings, file and   *)
(* object contents are sequences of bytes.  Every I/O call of Write is one *)
(* step of the attempt that makes it, so that attempts of different        *)
(* callers interleave at their I/O calls.                                  *)
(***************************************************************************)
EXTENDS Integers, Sequences, FiniteSets, TLC

\* ------------------------------------------------------------------ bounds
\* longest input stream, in bytes
MaxLen == 2
\* GetObject response bodies that may be open at once
MaxOpenBodies == 2

\* the callers of the writer, and those that are active in Spec
Procs == {"w1", "w2"}
Callers == {"w1"}
\* byte values a stream carries; 0 is what a hole in a file reads as
Bytes == {1}
\* edition identifiers of the configuration: all are queried, Spec publishes the first
Editions == {<<"a">>, <<"b">>}
Published == {<<"a">>}
Buckets == {<<"B">>}
\* longest edition identifier the path mapping is applied to
MaxIdLen == 3
\* characters of those identifiers: a letter, the dot and the path separator
IdChars == {"a", ".", "/"}

\* ------------------------------------------------------- package constants
DateModifiedTag == "DateOfSourceDatabaseModification"
extension == <<".", "m", "m", "d", "b">>
tempExtension == <<".", "t", "e", "m", "p", "o", "r", "a", "r", "y">>
\* the digest that stands for "no content": as many zeros as a digest has digits
ZeroMD5 == <<"0", "0">>

\* ----------------------------------------------------------------- strings
HexDigits == <<"0", "1", "2", "3", "4", "5", "6", "7", "8", "9",
               "a", "b", "c", "d", "e", "f">>

UpperOf(c) ==
    CASE c = "a" -> "A" [] c = "b" -> "B" [] c = "c" -> "C"
      [] c = "d" -> "D" [] c = "e" -> "E" [] c = "f" -> "F"
      [] OTHER -> c

LowerOf(c) ==
    CASE c = "A" -> "a" [] c = "B" -> "b" [] c = "C" -> "c"
      [] c = "D" -> "d" [] c = "E" -> "e" [] c = "F" -> "f"
      [] OTHER -> c

ToUpper(s) == [i \in 1..Len(s) |-> UpperOf(s[i])]

\* strings.EqualFold: equality under case folding
EqualFold(s, t) ==
    /\ Len(s) = Len(t)
    /\ \A i \in 1..Len(s) : LowerOf(s[i]) = LowerOf(t[i])

\* all byte sequences of length at most n
RECURSIVE SeqsUpTo(_)
SeqsUpTo(n) ==
    IF n = 0 THEN {<<>>}
    ELSE LET shorter == SeqsUpTo(n - 1)
         IN  shorter \cup {Append(s, b) : s \in {x \in shorter : Len(x) = n - 1}, b \in Bytes}

Contents == SeqsUpTo(MaxLen)

\* ------------------------------------------------------------- md5 digest
\* running digest of the bytes written so far (md5Writer), an 8-bit fold
RECURSIVE MD5Sum(_)
MD5Sum(bytes) ==
    IF bytes = <<>> THEN 212
    ELSE (MD5Sum(SubSeq(bytes, 1, Len(bytes) - 1)) * 31 + bytes[Len(bytes)]) % 256

\* fmt.Sprintf("%x", sum): lower-case hex
MD5Hex(bytes) ==
    LET h == MD5Sum(bytes)
    IN  <<HexDigits[(h \div 16) + 1], HexDigits[(h % 16) + 1]>>

\* ------------------------------------------------------------------ paths
RECURSIVE SplitSlash(_)
\* the "/"-separated segments of a string
SplitSlash(s) ==
    IF s = <<>> THEN <<<<>>>>
    ELSE LET rest == SplitSlash(SubSeq(s, 1, Len(s) - 1))
             c == s[Len(s)]
         IN  IF c = "/" THEN Append(rest, <<>>)
             ELSE [rest EXCEPT ![Len(rest)] = Append(@, c)]

RECURSIVE CleanSegs(_)
\* path.Clean on the segments of a relative path
CleanSegs(segs) ==
    IF segs = <<>> THEN <<>>
    ELSE LET out == CleanSegs(SubSeq(segs, 1, Len(segs) - 1))
             g == segs[Len(segs)]
         IN  IF g = <<>> \/ g = <<".">> THEN out
             ELSE IF g = <<".", ".">>
                  THEN IF out # <<>> /\ out[Len(out)] # <<".", ".">>
                       THEN SubSeq(out, 1, Len(out) - 1)
                       ELSE Append(out, g)
                  ELSE Append(out, g)

RECURSIVE JoinSlash(_)
JoinSlash(segs) ==
    IF segs = <<>> THEN <<>>
    ELSE IF Len(segs) = 1 THEN segs[1]
    ELSE JoinSlash(SubSeq(segs, 1, Len(segs) - 1)) \o <<"/">> \o segs[Len(segs)]

\* path.Join(a, b) for a relative a: Clean(a + "/" + b)
PathJoin(a, b) ==
    LET segs == CleanSegs(SplitSlash(a \o <<"/">> \o b))
    IN  IF segs = <<>> THEN <<".">> ELSE JoinSlash(segs)

getObjectKey(editionID) == editionID \o extension

\* the staging path built without the tmp directory
TempFile_NoTmp(key) == key \o tempExtension

\* one staging path for every key
TempFile_Shared(key) == <<"t", "m", "p", "/", "d", "b">> \o tempExtension

TempFile(key) == PathJoin(<<"t", "m", "p">>, key) \o tempExtension

Keys == {getObjectKey(e) : e \in Editions}
TempPaths == {TempFile(k) : k \in Keys}

\* ------------------------------------------------------------------ state
VARIABLES
    writer,      \* the S3DatabaseWriter: s3Bucket, disableEncryption, verbose
    built,       \* how the writer was built: "New" (NewS3DatabaseWriter) or "literal"
    store,       \* the bucket: key -> object or NoObject
    fs,          \* the working directory: temp path -> bytes or NoFile
    w,           \* per caller: the activation of Write (pc, arguments, locals)
    obs,         \* per caller: what the current attempt has done so far
    get,         \* per caller: the result of GetHash, when that was its latest call
    openBodies   \* GetObject response bodies that were returned and not closed

vars == <<writer, built, store, fs, w, obs, get, openBodies>>

NoObject ==
    [exists |-> FALSE, Body |-> <<>>, ServerSideEncryption |-> "", Tagging |-> <<>>,
     Metadata |-> <<>>, newMD5 |-> <<>>, data |-> <<>>]
NoFile == [exists |-> FALSE, bytes |-> <<>>]
NoPut ==
    [issued |-> FALSE, Bucket |-> <<>>, Key |-> <<>>, ServerSideEncryption |-> "",
     Body |-> <<>>, Tagging |-> <<>>, Metadata |-> <<>>]
NoID == <<>>
nil == <<>>

\* fmt.Errorf("<msg> [for <id>]: %w", cause)
Errorf(msg, id, cause) == [msg |-> msg, id |-> id, cause |-> cause]

\* errors.Join(err, e) with e non-nil: both are kept
Join(err, e) == Append(err, e)

IdleW ==
    [pc |-> "idle", editionID |-> NoID, reader |-> [data |-> <<>>, pos |-> 0, closed |-> 0],
     newMD5 |-> <<>>, modTime |-> 0, err |-> nil, key |-> <<>>, tempFile |-> <<>>,
     fw |-> [open |-> FALSE, offset |-> 0, md5Writer |-> <<>>], s3Body |-> FALSE]

IdleObs ==
    [created |-> FALSE, copied |-> FALSE, validated |-> FALSE, opened |-> FALSE,
     put |-> NoPut, puts |-> 0, putOk |-> FALSE, objBefore |-> NoObject, fileAtPut |-> NoFile,
     drainErr |-> FALSE, failed |-> "none", closeErrs |-> {},
     overlapped |-> FALSE, concurrent |-> FALSE]

NoGet ==
    [outcome |-> "none", editionID |-> NoID, bucket |-> <<>>, key |-> <<>>,
     hash |-> <<>>, err |-> nil, newMD5 |-> <<>>, prev |-> <<>>, getObjects |-> 0]

\* NewS3DatabaseWriter(s3Client, s3Bucket, verbose)
NewS3DatabaseWriter(s3Bucket, verbose) ==
    [s3Bucket |-> s3Bucket, disableEncryption |-> FALSE, verbose |-> verbose]

\* the hashes a caller may pass for a stream: the right one in either case, and a wrong one
HashArgs(data) == {MD5Hex(data), ToUpper(MD5Hex(data)), ZeroMD5}

\* modification times of the source database
ModTimes == {1, 2}

Init ==
    /\ \E b \in Buckets, v \in {FALSE}, viaNew \in BOOLEAN :
          /\ built = IF viaNew THEN "New" ELSE "literal"
          /\ writer = IF viaNew THEN NewS3DatabaseWriter(b, v)
                      ELSE [s3Bucket |-> b, disableEncryption |-> TRUE, verbose |-> v]
    /\ store = [k \in Keys |-> NoObject]
    /\ fs = [f \in TempPaths |-> NoFile]
    /\ w = [p \in Procs |-> IdleW]
    /\ obs = [p \in Procs |-> IdleObs]
    /\ get = [p \in Procs |-> NoGet]
    /\ openBodies = 0

InWrite(p) == w[p].pc \notin {"idle", "returned"}

\* ---------------------------------------------------------------- GetHash
\* the ETag S3 reports for an object put in one part: the quoted hex MD5 of its bytes
ETagOf(body) == <<"\"">> \o MD5Hex(body) \o <<"\"">>

\* GetObject(Bucket, Key): NoSuchKey when the key is absent, the object when it is
\* there, and any other failure at any time
GetObjectOutcomes(key) ==
    IF ~store[key].exists THEN {"NoSuchKey", "other"} ELSE {"ok", "other"}

\* the hash that p got from its call just before, when that was a successful
\* GetHash of the same edition
PrevHash(p, editionID) ==
    IF get[p].outcome = "ok" /\ get[p].editionID = editionID THEN get[p].hash ELSE <<>>

\* GetHash with every GetObject failure taken for absence
GetHash_ErrIsAbsent(p, editionID) ==
    /\ ~InWrite(p)
    /\ openBodies < MaxOpenBodies
    /\ LET objectKey == getObjectKey(editionID)
       IN  \E outcome \in GetObjectOutcomes(objectKey) :
             /\ get' = [get EXCEPT ![p] =
                  [outcome |-> outcome, editionID |-> editionID,
                   bucket |-> writer.s3Bucket, key |-> objectKey,
                   hash |-> IF outcome = "ok" THEN ETagOf(store[objectKey].Body) ELSE ZeroMD5,
                   err |-> nil,
                   newMD5 |-> IF outcome = "ok" THEN store[objectKey].newMD5 ELSE <<>>,
                   prev |-> PrevHash(p, editionID),
                   getObjects |-> 1]]
             /\ openBodies' = IF outcome = "ok" THEN openBodies + 1 ELSE openBodies
    /\ w' = [w EXCEPT ![p] = IdleW]
    /\ obs' = [obs EXCEPT ![p] = IdleObs]
    /\ UNCHANGED <<writer, built, store, fs>>

\* GetHash that saves the body it got to the temp file of the edition
GetHash_StagesBody(p, editionID) ==
    /\ ~InWrite(p)
    /\ openBodies < MaxOpenBodies
    /\ LET objectKey == getObjectKey(editionID)
       IN  \E outcome \in GetObjectOutcomes(objectKey) :
             /\ get' = [get EXCEPT ![p] =
                  [outcome |-> outcome, editionID |-> editionID,
                   bucket |-> writer.s3Bucket, key |-> objectKey,
                   hash |-> CASE outcome = "NoSuchKey" -> ZeroMD5
                              [] outcome = "ok" -> ETagOf(store[objectKey].Body)
                              [] OTHER -> <<>>,
                   err |-> IF outcome = "other"
                           THEN <<Errorf("failed to Get Object", objectKey, "GetObject")>>
                           ELSE nil,
                   newMD5 |-> IF outcome = "ok" THEN store[objectKey].newMD5 ELSE <<>>,
                   prev |-> PrevHash(p, editionID),
                   getObjects |-> 1]]
             /\ openBodies' = IF outcome = "ok" THEN openBodies + 1 ELSE openBodies
    /\ w' = [w EXCEPT ![p] = IdleW]
    /\ obs' = [obs EXCEPT ![p] = IdleObs]
    /\ fs' = IF store[getObjectKey(editionID)].exists
             THEN [fs EXCEPT ![TempFile(getObjectKey(editionID))] =
                      [exists |-> TRUE, bytes |-> store[getObjectKey(editionID)].Body]]
             ELSE fs
    /\ UNCHANGED <<writer, built, store>>

\* GetHash(editionID), called by p between its Write calls
GetHash(p, editionID) ==
    /\ ~InWrite(p)
    /\ openBodies < MaxOpenBodies
    /\ LET objectKey == getObjectKey(editionID)
       IN  \E outcome \in GetObjectOutcomes(objectKey) :
             /\ get' = [get EXCEPT ![p] =
                  [outcome |-> outcome, editionID |-> editionID,
                   bucket |-> writer.s3Bucket, key |-> objectKey,
                   hash |-> CASE outcome = "NoSuchKey" -> ZeroMD5
                              [] outcome = "ok" -> ETagOf(store[objectKey].Body)
                              [] OTHER -> <<>>,
                   err |-> IF outcome = "other"
                           THEN <<Errorf("failed to Get Object", objectKey, "GetObject")>>
                           ELSE nil,
                   newMD5 |-> IF outcome = "ok" THEN store[objectKey].newMD5 ELSE <<>>,
                   prev |-> PrevHash(p, editionID),
                   getObjects |-> 1]]
             /\ openBodies' = IF outcome = "ok" THEN openBodies + 1 ELSE openBodies
    /\ w' = [w EXCEPT ![p] = IdleW]
    /\ obs' = [obs EXCEPT ![p] = IdleObs]
    /\ UNCHANGED <<writer, built, store, fs>>

\* ------------------------------------------------------------------ Write
\* the caller enters Write; callers keep attempts for one edition apart
WriteCall(p) ==
    /\ ~InWrite(p)
    /\ \E editionID \in Published, data \in Contents, t \in ModTimes :
         \E newMD5 \in HashArgs(data) :
           /\ \A q \in Procs \ {p} : InWrite(q) => w[q].editionID # editionID
           /\ w' = [w EXCEPT ![p] =
                      [IdleW EXCEPT !.pc = "newFileWriter", !.editionID = editionID,
                                    !.reader = [data |-> data, pos |-> 0, closed |-> 0],
                                    !.newMD5 = newMD5,
                                    !.modTime = t,
                                    !.key = getObjectKey(editionID),
                                    !.tempFile = TempFile(getObjectKey(editionID))]]
           /\ obs' = [obs EXCEPT ![p] =
                      [IdleObs EXCEPT !.objBefore = store[getObjectKey(editionID)]]]
    /\ get' = [get EXCEPT ![p] = NoGet]
    /\ UNCHANGED <<writer, built, store, fs, openBodies>>

\* the editions a caller publishes when callers do not wait for each other
RaceEditions(p) == IF p \in Callers THEN Published ELSE Editions

\* and the streams it passes: the first caller the longest, the others any
RaceContents(p) == IF p \in Callers THEN {c \in Contents : Len(c) = MaxLen} ELSE Contents

\* and the hashes: the first caller the right one, the others any of HashArgs
RaceHashes(p, data) == IF p \in Callers THEN {MD5Hex(data)} ELSE HashArgs(data)

\* a caller enters Write, once, whatever the other callers are doing; the
\* attempts then in Write are marked as concurrent with it, and those for the
\* same edition as overlapped
WriteCallOnce(p) ==
    /\ w[p].pc = "idle"
    /\ \E editionID \in RaceEditions(p), data \in RaceContents(p) :
         \E newMD5 \in RaceHashes(p, data) :
           LET others == {q \in Procs \ {p} : InWrite(q)}
               same == {q \in others : w[q].editionID = editionID}
           IN  /\ w' = [w EXCEPT ![p] =
                      [IdleW EXCEPT !.pc = "newFileWriter", !.editionID = editionID,
                                    !.reader = [data |-> data, pos |-> 0, closed |-> 0],
                                    !.newMD5 = newMD5,
                                    !.modTime = 1,
                                    !.key = getObjectKey(editionID),
                                    !.tempFile = TempFile(getObjectKey(editionID))]]
               /\ obs' = [q \in Procs |->
                      IF q = p
                      THEN [IdleObs EXCEPT !.objBefore = store[getObjectKey(editionID)],
                                           !.overlapped = (same # {}),
                                           !.concurrent = (others # {})]
                      ELSE [obs[q] EXCEPT !.overlapped = @ \/ q \in same,
                                          !.concurrent = @ \/ q \in others]]
    /\ UNCHANGED <<writer, built, store, fs, get, openBodies>>

\* newFileWriter(path): the file at path is created, or emptied when it is there
newFileWriter(fsys, path) == [fsys EXCEPT ![path] = [exists |-> TRUE, bytes |-> <<>>]]

\* fw, err := newFileWriter(tempFile)
WriteNewFileWriter(p) ==
    /\ w[p].pc = "newFileWriter"
    /\ \/ /\ fs' = newFileWriter(fs, w[p].tempFile)
          /\ w' = [w EXCEPT ![p].pc = "fwWrite",
                            ![p].fw = [open |-> TRUE, offset |-> 0, md5Writer |-> <<>>]]
          /\ obs' = [obs EXCEPT ![p].created = TRUE]
       \/ /\ w' = [w EXCEPT ![p].pc = "closeReader",
                            ![p].err = <<Errorf("setting up database writer", w[p].editionID,
                                                "newFileWriter")>>]
          /\ obs' = [obs EXCEPT ![p].failed = "newFileWriter"]
          /\ UNCHANGED fs
    /\ UNCHANGED <<writer, built, store, get, openBodies>>

\* file.Write(b) at the handle's offset; a gap reads as zeros
WriteAt(file, offset, b) ==
    LET bytes == file.bytes
        n == IF offset + 1 > Len(bytes) THEN offset + 1 ELSE Len(bytes)
    IN  [exists |-> TRUE,
         bytes |-> [i \in 1..n |-> IF i = offset + 1 THEN b
                                   ELSE IF i <= Len(bytes) THEN bytes[i] ELSE 0]]

\* fw.validateHash(h): the digest of the bytes written against h, ignoring case
validateHash(md5Writer, h) == EqualFold(h, MD5Hex(md5Writer))

\* fw.write(reader): io.Copy into the digest and the file, one chunk per step
WriteFwWrite(p) ==
    /\ w[p].pc = "fwWrite"
    /\ LET r == w[p].reader
           fail(cause) ==
               [w EXCEPT ![p].pc = "closeFw",
                         ![p].err = <<Errorf("writing to the temp file", w[p].editionID, cause)>>]
       IN  IF r.pos = Len(r.data)
           THEN \* EOF: the copy is complete
                /\ w' = [w EXCEPT ![p].pc = "validateHash"]
                /\ obs' = [obs EXCEPT ![p].copied = TRUE]
                /\ UNCHANGED fs
           ELSE \/ \* a chunk is read, digested and written
                   /\ w' = [w EXCEPT ![p].reader.pos = r.pos + 1,
                                     ![p].fw.offset = @ + 1,
                                     ![p].fw.md5Writer = Append(@, r.data[r.pos + 1])]
                   /\ fs' = [fs EXCEPT ![w[p].tempFile] =
                                WriteAt(@, w[p].fw.offset, r.data[r.pos + 1])]
                   /\ UNCHANGED obs
                \/ \* the stream fails to deliver the chunk
                   /\ w' = fail("read")
                   /\ obs' = [obs EXCEPT ![p].failed = "write"]
                   /\ UNCHANGED fs
                \/ \* the chunk is read and digested, the file write fails
                   /\ w' = [fail("write") EXCEPT ![p].reader.pos = r.pos + 1,
                                                 ![p].fw.md5Writer = Append(@, r.data[r.pos + 1])]
                   /\ obs' = [obs EXCEPT ![p].failed = "write"]
                   /\ UNCHANGED fs
    /\ UNCHANGED <<writer, built, store, get, openBodies>>

\* the hash check with its result dropped
WriteValidateHash_Ignored(p) ==
    /\ w[p].pc = "validateHash"
    /\ w' = [w EXCEPT ![p].pc = "openFile"]
    /\ obs' = [obs EXCEPT ![p].validated = validateHash(w[p].fw.md5Writer, w[p].newMD5)]
    /\ UNCHANGED <<writer, built, store, fs, get, openBodies>>

\* the hash check whose failure is recorded without returning
WriteValidateHash_NoReturn(p) ==
    /\ w[p].pc = "validateHash"
    /\ IF validateHash(w[p].fw.md5Writer, w[p].newMD5)
       THEN /\ w' = [w EXCEPT ![p].pc = "openFile"]
            /\ obs' = [obs EXCEPT ![p].validated = TRUE]
       ELSE /\ w' = [w EXCEPT ![p].pc = "openFile",
                              ![p].err = <<Errorf("validating hash", w[p].editionID, "mismatch")>>]
            /\ obs' = [obs EXCEPT ![p].failed = "validateHash"]
    /\ UNCHANGED <<writer, built, store, fs, get, openBodies>>

\* fw.validateHash(newMD5)
WriteValidateHash(p) ==
    /\ w[p].pc = "validateHash"
    /\ IF validateHash(w[p].fw.md5Writer, w[p].newMD5)
       THEN /\ w' = [w EXCEPT ![p].pc = "openFile"]
            /\ obs' = [obs EXCEPT ![p].validated = TRUE]
       ELSE /\ w' = [w EXCEPT ![p].pc = "closeFw",
                              ![p].err = <<Errorf("validating hash", w[p].editionID, "mismatch")>>]
            /\ obs' = [obs EXCEPT ![p].failed = "validateHash"]
    /\ UNCHANGED <<writer, built, store, fs, get, openBodies>>

\* s3Body, err := os.OpenFile(tempFile, os.O_RDONLY, 0o644)
WriteOpenFile(p) ==
    /\ w[p].pc = "openFile"
    /\ \/ /\ w' = [w EXCEPT ![p].pc = "putObject", ![p].s3Body = TRUE]
          /\ obs' = [obs EXCEPT ![p].opened = TRUE]
       \/ /\ w' = [w EXCEPT ![p].pc = "closeFw",
                            ![p].err = <<Errorf("opening temp file to read", w[p].editionID, "open")>>]
          /\ obs' = [obs EXCEPT ![p].failed = "openFile"]
    /\ UNCHANGED <<writer, built, store, fs, get, openBodies>>

\* the put request with the input stream, by then at its end, as the body
PutObjectInput_ReaderBody(p) ==
    [issued |-> TRUE,
     Bucket |-> writer.s3Bucket,
     Key |-> w[p].key,
     ServerSideEncryption |-> IF writer.disableEncryption THEN "" ELSE "AES256",
     Body |-> SubSeq(w[p].reader.data, w[p].reader.pos + 1, Len(w[p].reader.data)),
     Tagging |-> <<>>,
     Metadata |-> <<>>]

\* the put request without the encryption default
PutObjectInput_NoSSE(p) ==
    [issued |-> TRUE,
     Bucket |-> writer.s3Bucket,
     Key |-> w[p].key,
     ServerSideEncryption |-> "",
     Body |-> fs[w[p].tempFile].bytes,
     Tagging |-> <<>>,
     Metadata |-> <<>>]

\* the s3.PutObjectInput that Write builds
PutObjectInput(p) ==
    [issued |-> TRUE,
     Bucket |-> writer.s3Bucket,
     Key |-> w[p].key,
     ServerSideEncryption |-> IF writer.disableEncryption THEN "" ELSE "AES256",
     Body |-> fs[w[p].tempFile].bytes,
     Tagging |-> <<>>,
     Metadata |-> <<>>]

\* PutObject with the temp file removed when the upload fails
WritePutObject_RemovesTemp(p) ==
    /\ w[p].pc = "putObject"
    /\ LET in == PutObjectInput(p)
       IN  \/ /\ store' = [store EXCEPT ![in.Key] =
                             [exists |-> TRUE,
                              Body |-> in.Body,
                              ServerSideEncryption |-> in.ServerSideEncryption,
                              Tagging |-> in.Tagging,
                              Metadata |-> in.Metadata,
                              newMD5 |-> w[p].newMD5,
                              data |-> w[p].reader.data]]
              /\ w' = [w EXCEPT ![p].pc = "closeBody"]
              /\ UNCHANGED fs
              /\ obs' = [obs EXCEPT ![p].put = in, ![p].puts = @ + 1, ![p].putOk = TRUE,
                                    ![p].fileAtPut = fs[w[p].tempFile]]
           \/ /\ UNCHANGED store
              /\ fs' = [fs EXCEPT ![w[p].tempFile] = NoFile]
              /\ w' = [w EXCEPT ![p].pc = "closeBody",
                                ![p].err = <<Errorf("encountered an error writing file to S3",
                                                    NoID, "PutObject")>>]
              /\ obs' = [obs EXCEPT ![p].put = in, ![p].puts = @ + 1,
                                    ![p].failed = "putObject",
                                    ![p].fileAtPut = fs[w[p].tempFile]]
    /\ UNCHANGED <<writer, built, get, openBodies>>

\* PutObject that is tried a second time when it fails
WritePutObject_Retries(p) ==
    /\ w[p].pc = "putObject"
    /\ LET in == PutObjectInput(p)
       IN  \/ /\ store' = [store EXCEPT ![in.Key] =
                             [exists |-> TRUE,
                              Body |-> in.Body,
                              ServerSideEncryption |-> in.ServerSideEncryption,
                              Tagging |-> in.Tagging,
                              Metadata |-> in.Metadata,
                              newMD5 |-> w[p].newMD5,
                              data |-> w[p].reader.data]]
              /\ w' = [w EXCEPT ![p].pc = "closeBody"]
              /\ obs' = [obs EXCEPT ![p].put = in, ![p].puts = @ + 1, ![p].putOk = TRUE,
                                    ![p].fileAtPut = fs[w[p].tempFile]]
           \/ /\ UNCHANGED store
              /\ w' = [w EXCEPT ![p].pc = IF obs[p].puts = 0 THEN "putObject" ELSE "closeBody",
                                ![p].err = <<Errorf("encountered an error writing file to S3",
                                                    NoID, "PutObject")>>]
              /\ obs' = [obs EXCEPT ![p].put = in, ![p].puts = @ + 1,
                                    ![p].failed = "putObject",
                                    ![p].fileAtPut = fs[w[p].tempFile]]
    /\ UNCHANGED <<writer, built, fs, get, openBodies>>

\* writer.s3Client.PutObject(ctx, s3PutObject): the object is replaced whole or not at all
WritePutObject(p) ==
    /\ w[p].pc = "putObject"
    /\ LET in == PutObjectInput(p)
       IN  \/ /\ store' = [store EXCEPT ![in.Key] =
                             [exists |-> TRUE,
                              Body |-> in.Body,
                              ServerSideEncryption |-> in.ServerSideEncryption,
                              Tagging |-> in.Tagging,
                              Metadata |-> in.Metadata,
                              newMD5 |-> w[p].newMD5,
                              data |-> w[p].reader.data]]
              /\ w' = [w EXCEPT ![p].pc = "closeBody"]
              /\ obs' = [obs EXCEPT ![p].put = in, ![p].puts = @ + 1, ![p].putOk = TRUE,
                                    ![p].fileAtPut = fs[w[p].tempFile]]
           \/ /\ UNCHANGED store
              /\ w' = [w EXCEPT ![p].pc = "closeBody",
                                ![p].err = <<Errorf("encountered an error writing file to S3",
                                                    NoID, "PutObject")>>]
              /\ obs' = [obs EXCEPT ![p].put = in, ![p].puts = @ + 1,
                                    ![p].failed = "putObject",
                                    ![p].fileAtPut = fs[w[p].tempFile]]
    /\ UNCHANGED <<writer, built, fs, get, openBodies>>

\* the deferred close of s3Body with its error dropped
WriteCloseBody_Dropped(p) ==
    /\ w[p].pc = "closeBody"
    /\ \E closeErr \in BOOLEAN :
         /\ w' = [w EXCEPT ![p].pc = "closeFw", ![p].s3Body = FALSE]
         /\ obs' = [obs EXCEPT ![p].closeErrs = IF closeErr THEN @ \cup {"s3Body"} ELSE @]
    /\ UNCHANGED <<writer, built, store, fs, get, openBodies>>

\* deferred: s3Body.Close()
WriteCloseBody(p) ==
    /\ w[p].pc = "closeBody"
    /\ \E closeErr \in BOOLEAN :
         /\ w' = [w EXCEPT ![p].pc = "closeFw", ![p].s3Body = FALSE,
                           ![p].err = IF closeErr
                                      THEN Join(@, Errorf("closing file reader", NoID, "close"))
                                      ELSE @]
         /\ obs' = [obs EXCEPT ![p].closeErrs = IF closeErr THEN @ \cup {"s3Body"} ELSE @]
    /\ UNCHANGED <<writer, built, store, fs, get, openBodies>>

\* the deferred close of fw whose error replaces the error so far
WriteCloseFw_Overwrites(p) ==
    /\ w[p].pc = "closeFw"
    /\ \E closeErr \in BOOLEAN :
         /\ w' = [w EXCEPT ![p].pc = "closeReader", ![p].fw.open = FALSE,
                           ![p].err = IF closeErr
                                      THEN <<Errorf("closing file writer", NoID, "close")>>
                                      ELSE @]
         /\ obs' = [obs EXCEPT ![p].closeErrs = IF closeErr THEN @ \cup {"fw"} ELSE @]
    /\ UNCHANGED <<writer, built, store, fs, get, openBodies>>

\* deferred: fw.close()
WriteCloseFw(p) ==
    /\ w[p].pc = "closeFw"
    /\ \E closeErr \in BOOLEAN :
         /\ w' = [w EXCEPT ![p].pc = "closeReader", ![p].fw.open = FALSE,
                           ![p].err = IF closeErr
                                      THEN Join(@, Errorf("closing file writer", NoID, "close"))
                                      ELSE @]
         /\ obs' = [obs EXCEPT ![p].closeErrs = IF closeErr THEN @ \cup {"fw"} ELSE @]
    /\ UNCHANGED <<writer, built, store, fs, get, openBodies>>

\* the deferred close without the drain
WriteCloseReader_NoDrain(p) ==
    /\ w[p].pc = "closeReader"
    /\ \E closeErr \in BOOLEAN :
         /\ w' = [w EXCEPT ![p].pc = "returned",
                           ![p].reader.closed = @ + 1,
                           ![p].err = IF closeErr
                                      THEN Join(@, Errorf("closing reader", w[p].editionID,
                                                          "close"))
                                      ELSE @]
         /\ obs' = [obs EXCEPT ![p].closeErrs = IF closeErr THEN @ \cup {"reader"} ELSE @]
    /\ UNCHANGED <<writer, built, store, fs, get, openBodies>>

\* deferred: io.Copy(io.Discard, reader), its error dropped, then reader.Close()
WriteCloseReader(p) ==
    /\ w[p].pc = "closeReader"
    /\ LET r == w[p].reader
       IN  \E stop \in r.pos..Len(r.data), closeErr \in BOOLEAN :
             /\ w' = [w EXCEPT ![p].pc = "returned",
                               ![p].reader = [r EXCEPT !.pos = stop, !.closed = @ + 1],
                               ![p].err = IF closeErr
                                          THEN Join(@, Errorf("closing reader", w[p].editionID,
                                                              "close"))
                                          ELSE @]
             /\ obs' = [obs EXCEPT ![p].drainErr = (stop < Len(r.data)),
                                   ![p].closeErrs = IF closeErr THEN @ \cup {"reader"} ELSE @]
    /\ UNCHANGED <<writer, built, store, fs, get, openBodies>>

Next ==
    \/ \E p \in Callers :
         \/ \E e \in Editions : GetHash(p, e)
         \/ WriteCall(p)
         \/ WriteNewFileWriter(p)
         \/ WriteFwWrite(p)
         \/ WriteValidateHash(p)
         \/ WriteOpenFile(p)
         \/ WritePutObject(p)
         \/ WriteCloseBody(p)
         \/ WriteCloseFw(p)
         \/ WriteCloseReader(p)

Spec == Init /\ [][Next]_vars

\* the steps of Write after the call: each is a file or network call that returns
WriteSteps(p) ==
    \/ WriteNewFileWriter(p)
    \/ WriteFwWrite(p)
    \/ WriteValidateHash(p)
    \/ WriteOpenFile(p)
    \/ WritePutObject(p)
    \/ WriteCloseBody(p)
    \/ WriteCloseFw(p)
    \/ WriteCloseReader(p)

\* two callers, one attempt each, that do not wait for each other
RaceNext == \E p \in Procs : WriteCallOnce(p) \/ WriteSteps(p)

SpecRace == Init /\ [][RaceNext]_vars

\* Spec with every call of a started attempt returning
RECURSIVE IdsUpTo(_)
\* the non-empty identifiers of at most n characters
IdsUpTo(n) ==
    IF n = 0 THEN {}
    ELSE LET shorter == IdsUpTo(n - 1)
         IN  {<<c>> : c \in IdChars} \cup shorter
                \cup {Append(i, c) : i \in shorter, c \in IdChars}

Ids == IdsUpTo(MaxIdLen)

\* key := w.getObjectKey(editionID); tempFile := path.Join("tmp", key) + tempExtension
WriteDerivePaths(p) ==
    /\ w[p].pc = "idle"
    /\ \E editionID \in Ids :
          LET key == getObjectKey(editionID)
          IN  w' = [w EXCEPT ![p] = [IdleW EXCEPT !.pc = "mapped",
                                                  !.editionID = editionID,
                                                  !.key = key,
                                                  !.tempFile = TempFile(key)]]
    /\ UNCHANGED <<writer, built, store, fs, obs, get, openBodies>>

PathsNext == \E p \in Procs : WriteDerivePaths(p)

\* the mapping from identifier to key and temp path, applied to any identifier
SpecPaths == Init /\ [][PathsNext]_vars

FairSpec == Spec /\ \A p \in Callers : WF_vars(WriteSteps(p))

\* ------------------------------------------------------------------ claims
Returned(p) == w[p].pc = "returned"

\* C1: in every attempt PutObject is issued only after, in that attempt, the
\* temp file was created, the stream was copied and the hash check succeeded;
\* an attempt that fails at creation or copy issues no PutObject.
C1_UploadOnlyAfterValidated ==
    \A p \in Procs :
        /\ (w[p].pc = "putObject" \/ obs[p].put.issued)
              => obs[p].created /\ obs[p].copied /\ obs[p].validated
        /\ obs[p].failed \in {"newFileWriter", "write"} => ~obs[p].put.issued

C1_Witness ==
    \E p \in Procs : Returned(p) /\ obs[p].put.issued /\ obs[p].validated

\* the attempt of p copied its stream and the digest of the staged bytes is
\* not the expected hash
Mismatch(p) ==
    /\ obs[p].copied
    /\ ~EqualFold(w[p].newMD5, MD5Hex(fs[w[p].tempFile].bytes))

\* C2: when the hash of the staged bytes differs from the expected hash, Write
\* returns an error, issues no PutObject, and the object under the canonical
\* key is what it was before the attempt.
C2_MismatchFailsBeforeUpload ==
    \A p \in Procs :
        Mismatch(p) =>
            /\ ~obs[p].put.issued
            /\ w[p].pc # "putObject"
            /\ store[w[p].key] = obs[p].objBefore
            /\ Returned(p) => w[p].err # nil

C2_Witness ==
    \E p \in Procs : Returned(p) /\ Mismatch(p) /\ obs[p].objBefore.exists

\* C3: the object under a canonical key is absent or is the whole stream of one
\* attempt whose digest equalled that attempt's newMD5; a failed PutObject
\* leaves the object as it was before the attempt.
C3_PublishedIsValidatedWhole ==
    /\ \A k \in Keys :
          store[k].exists =>
              /\ store[k].Body = store[k].data
              /\ EqualFold(store[k].newMD5, MD5Hex(store[k].Body))
    /\ \A p \in Procs :
          obs[p].failed = "putObject" => store[w[p].key] = obs[p].objBefore

C3_Witness ==
    \E p \in Procs :
        /\ Returned(p) /\ obs[p].failed = "putObject"
        /\ obs[p].objBefore.exists
        /\ obs[p].objBefore.Body # w[p].reader.data

\* C4: GetHash returns ZeroMD5 and no error when the object is absent, the
\* content identifier and no error when it exists, and for every other failure
\* an error and never ZeroMD5.
C4_GetHashThreeOutcomes ==
    \A p \in Procs :
        /\ get[p].outcome = "NoSuchKey" =>
              get[p].hash = ZeroMD5 /\ get[p].err = nil /\ ~store[get[p].key].exists
        /\ get[p].outcome = "ok" =>
              /\ get[p].err = nil /\ store[get[p].key].exists
              /\ get[p].hash = ETagOf(store[get[p].key].Body)
        /\ get[p].outcome = "other" => get[p].err # nil /\ get[p].hash # ZeroMD5

C4_Witness ==
    \E p \in Procs : get[p].outcome = "other" /\ ~store[get[p].key].exists

\* C5: after a successful Write with no later publish of the edition, GetHash
\* reads the bucket and key that Write uploaded to and returns a hash equal to
\* the newMD5 of that Write.
C5_ReadAfterWrite ==
    \A p \in Procs :
        get[p].outcome = "ok" =>
            /\ get[p].bucket = writer.s3Bucket
            /\ get[p].key = getObjectKey(get[p].editionID)
            /\ get[p].hash = get[p].newMD5

\* C6 as claimed: when Write has returned, on every exit path, the stream is
\* at its end and was closed exactly once.
C6_DrainedAndClosed ==
    \A p \in Procs :
        Returned(p) =>
            /\ w[p].reader.pos = Len(w[p].reader.data)
            /\ w[p].reader.closed = 1

\* C6, amended: when Write has returned the stream was closed exactly once and
\* was read up to its end or up to a read error of the drain; it is at its
\* end on every exit path but file-creation and stream-copy failure, and on
\* those too when the drain met no read error.  It is not closed before.
C6_ClosedOnceDrainedBestEffort ==
    \A p \in Procs :
        /\ InWrite(p) => w[p].reader.closed = 0
        /\ Returned(p) =>
              /\ w[p].reader.closed = 1
              /\ w[p].reader.pos = Len(w[p].reader.data) \/ obs[p].drainErr
              /\ obs[p].drainErr => obs[p].failed \in {"newFileWriter", "write"}

C6_Witness ==
    \E p \in Procs :
        /\ Returned(p) /\ obs[p].failed = "write" /\ ~obs[p].drainErr
        /\ w[p].reader.pos = Len(w[p].reader.data)
        /\ Len(w[p].fw.md5Writer) < Len(w[p].reader.data)

\* C7: after any sequence of Write and GetHash calls no handle that the calls
\* acquired is open: no staged-file write handle, no staged-file read handle,
\* no closed-less input stream, no GetObject response body.
C7_NoHandleLeft ==
    (\A p \in Procs : ~InWrite(p)) =>
        /\ openBodies = 0
        /\ \A p \in Procs : ~w[p].fw.open /\ ~w[p].s3Body
        /\ \A p \in Procs : Returned(p) => w[p].reader.closed = 1

\* C8: Write never deletes the staged file; when the stream was staged and
\* validated and PutObject failed, the file at the temp path exists after the
\* return and holds the validated bytes.
C8_StagedFileKept ==
    /\ [](\A p \in Procs :
            /\ obs[p].created => fs[w[p].tempFile].exists
            /\ (Returned(p) /\ obs[p].failed = "putObject") =>
                  /\ fs[w[p].tempFile].bytes = w[p].reader.data
                  /\ validateHash(fs[w[p].tempFile].bytes, w[p].newMD5))
    /\ [][\A f \in TempPaths : fs[f].exists => fs'[f].exists]_vars

C8_Witness ==
    \E p \in Procs :
        /\ Returned(p) /\ obs[p].failed = "putObject"
        /\ fs[w[p].tempFile].bytes # <<>>

\* the tag set that names the source's modification time
ProvenanceTag(t) == <<DateModifiedTag, t>>

\* C9: every put request of Write carries the expected hash and the tag with
\* the modification time passed to Write.
C9_ProvenanceTagged ==
    \A p \in Procs :
        obs[p].put.issued =>
            /\ obs[p].put.Tagging = ProvenanceTag(w[p].modTime)
            /\ obs[p].put.Metadata = w[p].newMD5

\* C10: a put request asks for AES256 exactly when disableEncryption is false,
\* which it is for every writer built by NewS3DatabaseWriter, and no step
\* changes the writer.
C10_EncryptedUnlessDisabled ==
    /\ [](\A p \in Procs :
            obs[p].put.issued =>
                obs[p].put.ServerSideEncryption =
                    IF writer.disableEncryption THEN "" ELSE "AES256")
    /\ [](built = "New" => ~writer.disableEncryption)
    /\ [][writer' = writer]_vars

C10_Witness ==
    \E p \in Procs :
        /\ built = "New" /\ obs[p].putOk
        /\ store[w[p].key].ServerSideEncryption = "AES256"

\* s names the edition: it is the identifier or starts with it (the object key)
NamesEdition(s, editionID) ==
    /\ editionID # NoID
    /\ Len(s) >= Len(editionID)
    /\ SubSeq(s, 1, Len(editionID)) = editionID

\* C11: every error that Write or GetHash returns carries, in at least one
\* of its wrapped parts, the edition identifier, and in each part the context
\* of the step that failed.
C11_ErrorsNameEdition ==
    \A p \in Procs :
        /\ (Returned(p) /\ w[p].err # nil) =>
              /\ \A i \in 1..Len(w[p].err) : w[p].err[i].msg # ""
              /\ \E i \in 1..Len(w[p].err) : NamesEdition(w[p].err[i].id, w[p].editionID)
        /\ get[p].err # nil =>
              /\ \A i \in 1..Len(get[p].err) : get[p].err[i].msg # ""
              /\ \E i \in 1..Len(get[p].err) :
                    NamesEdition(get[p].err[i].id, get[p].editionID)

\* the context under which Write wraps the failure of a step or of a close
ContextOf(what) ==
    CASE what = "newFileWriter" -> "setting up database writer"
      [] what = "write" -> "writing to the temp file"
      [] what = "validateHash" -> "validating hash"
      [] what = "openFile" -> "opening temp file to read"
      [] what = "putObject" -> "encountered an error writing file to S3"
      [] what = "s3Body" -> "closing file reader"
      [] what = "fw" -> "closing file writer"
      [] what = "reader" -> "closing reader"

\* the returned error of p has a part for the failure named what
Reports(p, what) == \E i \in 1..Len(w[p].err) : w[p].err[i].msg = ContextOf(what)

\* the returned error of p has a part whose cause is a failed drain
DrainReported(p) == \E i \in 1..Len(w[p].err) : w[p].err[i].cause = "drain"

\* the failures of the attempt of p but that of the drain: the step that
\* failed, if any, and the closes that failed
FailuresOf(p) ==
    (IF obs[p].failed = "none" THEN {} ELSE {obs[p].failed}) \cup obs[p].closeErrs

\* C12 as claimed: the error Write returns has a part for the step that failed
\* and for every cleanup that failed: each close and the drain.
C12_AllFailuresReported ==
    \A p \in Procs :
        Returned(p) =>
            /\ \A f \in FailuresOf(p) : Reports(p, f)
            /\ obs[p].drainErr => DrainReported(p)

\* C12, amended: the error Write returns has exactly one part for the step
\* that failed and one for every close that failed (s3Body, fw, reader), the
\* step first; a read error of the drain is dropped and has no part.
C12_CloseFailuresJoined ==
    \A p \in Procs :
        Returned(p) =>
            /\ \A f \in FailuresOf(p) : Reports(p, f)
            /\ Len(w[p].err) = Cardinality(FailuresOf(p))
            /\ obs[p].failed # "none" => w[p].err[1].msg = ContextOf(obs[p].failed)
            /\ ~DrainReported(p)

C12_Witness ==
    \E p \in Procs :
        /\ Returned(p) /\ obs[p].failed = "putObject"
        /\ obs[p].closeErrs = {"s3Body", "fw", "reader"}
        /\ Len(w[p].err) = 4

\* C18: Write returns nil exactly when PutObject was issued and succeeded and
\* the three deferred closes succeeded; a nil result implies that the object
\* under the key is the one this attempt put.
C18_NilIffPublishedAndClosed ==
    \A p \in Procs :
        Returned(p) =>
            /\ w[p].err = nil <=>
                  (obs[p].put.issued /\ obs[p].putOk /\ obs[p].closeErrs = {})
            /\ w[p].err = nil =>
                  store[w[p].key].exists /\ store[w[p].key].Body = obs[p].put.Body

\* Write returned an error although its object is published
C18_Witness ==
    \E p \in Procs :
        /\ Returned(p) /\ w[p].err # nil
        /\ obs[p].putOk /\ obs[p].closeErrs # {}
        /\ store[w[p].key].exists /\ store[w[p].key].Body = w[p].reader.data
        /\ ~obs[p].objBefore.exists

\* C13: GetHash calls that follow each other for an existing edition, with no
\* Write in between, return the same content identifier, and a GetHash call
\* changes neither the bucket nor the staging files.
C13_GetHashIdempotent ==
    /\ [](\A p \in Procs :
            (get[p].outcome = "ok" /\ get[p].prev # <<>>) => get[p].hash = get[p].prev)
    /\ [][\A p \in Procs :
            ((get'[p] # get[p] \/ openBodies' # openBodies) /\ get'[p].outcome # "none")
                => (store' = store /\ fs' = fs)]_vars

C13_Witness ==
    \E p \in Procs :
        /\ get[p].outcome = "ok" /\ get[p].prev # <<>>
        /\ openBodies >= 2
        /\ fs[TempFile(get[p].key)].exists

\* the place of a step in the text of Write; the deferred closes run last
Rank(pc) ==
    CASE pc = "idle" -> 0
      [] pc = "newFileWriter" -> 1
      [] pc = "fwWrite" -> 2
      [] pc = "validateHash" -> 3
      [] pc = "openFile" -> 4
      [] pc = "putObject" -> 5
      [] pc = "closeBody" -> 6
      [] pc = "closeFw" -> 7
      [] pc = "closeReader" -> 8
      [] pc = "returned" -> 9

\* C14: an attempt goes forward through its steps only, the first failing step
\* leads to the deferred closes, it issues at most one PutObject, it returns
\* published or failed and not both, and, every call returning, it returns; a
\* GetHash call issues one GetObject.
C14_LinearSingleAttempt ==
    /\ [](\A p \in Procs :
            /\ obs[p].puts <= 1
            /\ (InWrite(p) /\ obs[p].failed # "none")
                  => w[p].pc \in {"closeBody", "closeFw", "closeReader"}
            /\ Returned(p) => (obs[p].putOk <=> obs[p].failed = "none")
            /\ get[p].outcome # "none" => get[p].getObjects = 1)
    /\ [][\A p \in Procs :
            (InWrite(p) /\ w'[p] # w[p]) =>
                \/ Rank(w'[p].pc) > Rank(w[p].pc)
                \/ /\ w[p].pc = "fwWrite" /\ w'[p].pc = "fwWrite"
                   /\ w'[p].reader.pos = w[p].reader.pos + 1]_vars
    /\ \A p \in Callers : InWrite(p) ~> Returned(p)

C14_Witness ==
    \E p \in Procs :
        /\ Returned(p) /\ obs[p].failed = "putObject" /\ obs[p].puts = 1
        /\ Len(w[p].reader.data) = MaxLen

\* what an attempt leaves behind when it runs alone: the staged file holds the
\* bytes it wrote, the hash check decided on its own stream, the object under
\* its key is the one it put or else the one from before, and its error has a
\* part for each of its own failures and no other
SeqOutcome(p) ==
    /\ obs[p].created =>
          fs[w[p].tempFile] =
              [exists |-> TRUE, bytes |-> SubSeq(w[p].reader.data, 1, w[p].fw.offset)]
    /\ obs[p].copied => (obs[p].validated <=> validateHash(w[p].reader.data, w[p].newMD5))
    /\ store[w[p].key] =
          IF obs[p].putOk
          THEN [exists |-> TRUE, Body |-> w[p].reader.data,
                ServerSideEncryption |-> obs[p].put.ServerSideEncryption,
                Tagging |-> <<>>, Metadata |-> <<>>,
                newMD5 |-> w[p].newMD5, data |-> w[p].reader.data]
          ELSE obs[p].objBefore
    /\ Len(w[p].err) = Cardinality(FailuresOf(p))
    /\ \A f \in FailuresOf(p) : Reports(p, f)

PutUnvalidated(p) ==
    /\ obs[p].putOk
    /\ ~validateHash(obs[p].put.Body, w[p].newMD5)

Mapped(p) == w[p].pc = "mapped"

\* the identifier has no path separator, so no segment for path.Join to clean
PlainID(id) == \A i \in 1..Len(id) : id[i] # "/"

TmpDir == <<"t", "m", "p", "/">>

\* the cleaned path lies under the tmp directory
UnderTmp(path) ==
    /\ Len(path) > Len(TmpDir)
    /\ SubSeq(path, 1, Len(TmpDir)) = TmpDir

\* C17 as stated: for every two distinct identifiers, those with path
\* separators or dot segments included, the keys are distinct, the temp paths
\* are distinct, and every temp path lies under the tmp directory.
C17_CollisionFreeForAllIDs ==
    \A p \in Procs : Mapped(p) =>
        /\ UnderTmp(w[p].tempFile)
        /\ \A q \in Procs : (Mapped(q) /\ w[q].editionID # w[p].editionID) =>
              /\ w[q].key # w[p].key
              /\ w[q].tempFile # w[p].tempFile

\* C17, amended: the mapping is a function of the identifier; distinct
\* identifiers always have distinct keys; for identifiers without a path
\* separator the temp path is "tmp/" followed by the key and the staging
\* suffix, so it lies under tmp and distinct identifiers have distinct paths.
C17_CollisionFreeForPlainIDs ==
    \A p \in Procs : Mapped(p) =>
        /\ w[p].key = w[p].editionID \o extension
        /\ PlainID(w[p].editionID) =>
              /\ w[p].tempFile = TmpDir \o w[p].key \o tempExtension
              /\ UnderTmp(w[p].tempFile)
        /\ \A q \in Procs : Mapped(q) =>
              /\ w[q].editionID = w[p].editionID =>
                    (w[q].key = w[p].key /\ w[q].tempFile = w[p].tempFile)
              /\ w[q].editionID # w[p].editionID =>
                    /\ w[q].key # w[p].key
                    /\ (PlainID(w[p].editionID) /\ PlainID(w[q].editionID)) =>
                          w[q].tempFile # w[p].tempFile

\* two distinct identifiers without a separator, one of them made of dots, mapped
C17_Witness ==
    \E p \in Procs, q \in Procs :
        /\ Mapped(p) /\ Mapped(q)
        /\ w[p].editionID = <<".", ".">>
        /\ w[q].editionID = <<"a">>
        /\ w[p].tempFile # w[q].tempFile
        /\ UnderTmp(w[p].tempFile) /\ UnderTmp(w[q].tempFile)

====
